---- MODULE Spec2Model ----
(***************************************************************************)
(* Model of the parsing and aggregation engine of appleledger              *)
(* (lib/parser.ts): detectDelimiter, validateReport, parseAppleReport and  *)
(* their helpers.                                                          *)
(*                                                                         *)
(* A JavaScript string is a sequence of tokens.  A token is one character  *)
(* ("\n", "\t", ",", " ", "-", ".", a digit, a capital letter) or one of   *)
(* the literal texts the code compares against ("Country of Sale", ...),   *)
(* which no sequence of the single characters can spell.  Equality of      *)
(* token sequences is then equality of the strings.                        *)
(***************************************************************************)
EXTENDS Integers, Sequences, FiniteSets, TLC

VARIABLES content, call

vars == <<content, call>>

(***************************************************************************)
(* String primitives.                                                      *)
(***************************************************************************)
NL == "\n"
TAB == "\t"
COMMA == ","
SP == " "
CR == "\r"
HYPHEN == "-"
DOT == "."

\* The characters String.prototype.trim removes.
WhiteSpace == {SP, TAB, CR, NL}

RECURSIVE SplitFrom(_, _, _, _)
\* The fields of s[i..] when cur is the field read so far.
SplitFrom(s, sep, i, cur) ==
    IF i > Len(s) THEN <<cur>>
    ELSE IF s[i] = sep THEN <<cur>> \o SplitFrom(s, sep, i + 1, <<>>)
    ELSE SplitFrom(s, sep, i + 1, Append(cur, s[i]))

\* String.prototype.split(sep): always at least one field.
Split(s, sep) == SplitFrom(s, sep, 1, <<>>)

RECURSIVE Join(_, _)
\* Array.prototype.join(sep).
Join(parts, sep) ==
    IF Len(parts) = 0 THEN <<>>
    ELSE IF Len(parts) = 1 THEN parts[1]
    ELSE parts[1] \o <<sep>> \o Join(Tail(parts), sep)

RECURSIVE TrimStart(_)
TrimStart(s) ==
    IF Len(s) > 0 /\ s[1] \in WhiteSpace THEN TrimStart(Tail(s)) ELSE s

RECURSIVE TrimEnd(_)
TrimEnd(s) ==
    IF Len(s) > 0 /\ s[Len(s)] \in WhiteSpace
    THEN TrimEnd(SubSeq(s, 1, Len(s) - 1)) ELSE s

\* String.prototype.trim.
Trim(s) == TrimEnd(TrimStart(s))

\* String.prototype.includes(lit) for a literal text lit.
Includes(s, lit) == \E i \in 1..Len(s) : s[i] = lit

\* String.prototype.startsWith(lit) for a literal text lit.
StartsWith(s, lit) == Len(s) > 0 /\ s[1] = lit

\* (s.match(/c/g) || []).length
CountChar(s, c) == Cardinality({i \in 1..Len(s) : s[i] = c})

\* Array.prototype.slice(0, n).
Slice0(a, n) == SubSeq(a, 1, IF Len(a) < n THEN Len(a) ELSE n)

\* Array.prototype.includes.
ArrayIncludes(a, x) == \E i \in 1..Len(a) : a[i] = x

\* Array.prototype.map((h) => h.trim()).
MapTrim(a) == [i \in 1..Len(a) |-> Trim(a[i])]

(***************************************************************************)
(* detectDelimiter                                                         *)
(***************************************************************************)
DetectLines == 5

\* Detection that counts over the whole text instead of its first lines.
detectDelimiterWholeText(c) ==
    IF CountChar(c, TAB) > CountChar(c, COMMA) THEN TAB ELSE COMMA

detectDelimiter(c) ==
    LET firstLines == Join(Slice0(Split(c, NL), DetectLines), NL)
        tabCount == CountChar(firstLines, TAB)
        commaCount == CountChar(firstLines, COMMA)
    IN  IF tabCount > commaCount THEN TAB ELSE COMMA

(***************************************************************************)
(* JavaScript values held in decoded rows and aggregates.                  *)
(***************************************************************************)
Str(s) == [t |-> "string", v |-> s]
Num(n) == [t |-> "number", v |-> n]
Undefined == [t |-> "undefined", v |-> 0]
NaN == [t |-> "NaN", v |-> 0]

\* SameValueZero, the key comparison of Map (NaN is never a key here).
SameValue(a, b) == a.t = b.t /\ a.v = b.v

\* ToBoolean: undefined, "", 0 and NaN are falsy.
Truthy(x) ==
    \/ x.t = "string" /\ x.v # <<>>
    \/ x.t = "number" /\ x.v # 0

\* x || 0
OrZero(x) == IF Truthy(x) THEN x ELSE Num(0)

\* a + b on numbers: undefined or NaN on either side gives NaN.
Plus(a, b) ==
    IF a.t = "number" /\ b.t = "number" THEN Num(a.v + b.v) ELSE NaN

Digits == {"0", "1", "2", "3", "4", "5", "6", "7", "8", "9"}

DigitVal(d) ==
    CASE d = "0" -> 0 [] d = "1" -> 1 [] d = "2" -> 2 [] d = "3" -> 3
      [] d = "4" -> 4 [] d = "5" -> 5 [] d = "6" -> 6 [] d = "7" -> 7
      [] d = "8" -> 8 [] d = "9" -> 9

RECURSIVE DigitRun(_, _)
\* The length of the run of digits of s that starts at position i.
DigitRun(s, i) ==
    IF i <= Len(s) /\ s[i] \in Digits THEN 1 + DigitRun(s, i + 1) ELSE 0

RECURSIVE DigitsValue(_, _, _)
\* The decimal value of the n digits of s that start at position i.
DigitsValue(s, i, n) ==
    IF n = 0 THEN 0
    ELSE DigitsValue(s, i, n - 1) * 10 + DigitVal(s[i + n - 1])

\* parseInt(s, 10): leading white space, a sign, then the longest run of
\* digits; NaN when there is no digit.
parseInt(str) ==
    LET s == TrimStart(str)
        signed == Len(s) > 0 /\ s[1] \in {"-", "+"}
        from == IF signed THEN 2 ELSE 1
        n == DigitRun(s, from)
        mag == DigitsValue(s, from, n)
    IN  IF n = 0 THEN NaN
        ELSE Num(IF signed /\ s[1] = "-" THEN 0 - mag ELSE mag)

\* parseFloat(s): as parseInt, with an optional fraction after ".".  Amounts
\* are held in hundredths; the fraction is read to two places.
parseFloat(str) ==
    LET s == TrimStart(str)
        signed == Len(s) > 0 /\ s[1] \in {"-", "+"}
        from == IF signed THEN 2 ELSE 1
        n == DigitRun(s, from)
        dot == from + n <= Len(s) /\ s[from + n] = DOT
        m == IF dot THEN DigitRun(s, from + n + 1) ELSE 0
        tenths == IF m >= 1 THEN DigitVal(s[from + n + 1]) ELSE 0
        hundredths == IF m >= 2 THEN DigitVal(s[from + n + 2]) ELSE 0
        mag == DigitsValue(s, from, n) * 100 + tenths * 10 + hundredths
    IN  IF n = 0 /\ m = 0 THEN NaN
        ELSE Num(IF signed /\ s[1] = "-" THEN 0 - mag ELSE mag)

(***************************************************************************)
(* Line array, metadata and region location.  Indices into a line array    *)
(* are JavaScript's: the first line has index 0.                           *)
(***************************************************************************)
REQUIRED_COLUMNS ==
    << <<"Country of Sale">>, <<"Partner Share Currency">>, <<"Quantity">>,
       <<"Extended Partner Share">> >>

COLUMN_MAP ==
    [h \in { <<"Transaction Date">>, <<"Settlement Date">>,
             <<"Apple Identifier">>, <<"SKU">>, <<"Title">>,
             <<"Developer Name">>, <<"Product Type Identifier">>,
             <<"Country of Sale">>, <<"Quantity">>, <<"Partner Share">>,
             <<"Extended Partner Share">>, <<"Partner Share Currency">>,
             <<"Customer Price">>, <<"Customer Currency">>,
             <<"Sale or Return">>, <<"Promo Code">>, <<"Order Type">>,
             <<"Region">> } |->
        CASE h = <<"Transaction Date">> -> "transactionDate"
          [] h = <<"Settlement Date">> -> "settlementDate"
          [] h = <<"Apple Identifier">> -> "appleIdentifier"
          [] h = <<"SKU">> -> "sku"
          [] h = <<"Title">> -> "title"
          [] h = <<"Developer Name">> -> "developerName"
          [] h = <<"Product Type Identifier">> -> "productTypeIdentifier"
          [] h = <<"Country of Sale">> -> "countryOfSale"
          [] h = <<"Quantity">> -> "quantity"
          [] h = <<"Partner Share">> -> "partnerShare"
          [] h = <<"Extended Partner Share">> -> "extendedPartnerShare"
          [] h = <<"Partner Share Currency">> -> "partnerShareCurrency"
          [] h = <<"Customer Price">> -> "customerPrice"
          [] h = <<"Customer Currency">> -> "customerCurrency"
          [] h = <<"Sale or Return">> -> "saleOrReturn"
          [] h = <<"Promo Code">> -> "promoCode"
          [] h = <<"Order Type">> -> "orderType"
          [] h = <<"Region">> -> "region"]

IsNonBlank(l) == Trim(l) # <<>>

\* content.split('\n').filter((l) => l.trim())
NonBlankLines(c) == SelectSeq(Split(c, NL), IsNonBlank)

MetadataLines == 5

RECURSIVE MetadataFrom(_, _, _, _)
\* The loop of parseMetadata over lines[i..], metadata being md so far.
MetadataFrom(lines, delimiter, i, md) ==
    IF i > Len(lines) THEN md
    ELSE
        LET parts == Split(lines[i], delimiter)
            key == Trim(parts[1])
            value == Trim(parts[2])
            next ==
                IF Len(parts) >= 2
                THEN IF key = <<"Vendor Name">>
                     THEN [md EXCEPT !.vendorName = value]
                     ELSE IF key = <<"Start Date">>
                     THEN [md EXCEPT !.startDate = value]
                     ELSE IF key = <<"End Date">>
                     THEN [md EXCEPT !.endDate = value]
                     ELSE md
                ELSE md
        IN  MetadataFrom(lines, delimiter, i + 1, next)

\* The metadata read from one line more than the first five.
parseMetadataSixLines(lines, delimiter) ==
    MetadataFrom(Slice0(lines, MetadataLines + 1), delimiter, 1,
                 [vendorName |-> <<>>, startDate |-> <<>>, endDate |-> <<>>])

parseMetadata(lines, delimiter) ==
    MetadataFrom(Slice0(lines, MetadataLines), delimiter, 1,
                 [vendorName |-> <<>>, startDate |-> <<>>, endDate |-> <<>>])

HeaderWindow == 10

IsHeaderLine(line) ==
    Includes(line, "Transaction Date") /\ Includes(line, "Country of Sale")

\* The header scan over one line more than the window.
findHeaderLineWiderWindow(lines, delimiter) ==
    LET limit == IF Len(lines) < HeaderWindow + 1 THEN Len(lines) ELSE HeaderWindow + 1
        hits == {i \in 0..(limit - 1) : IsHeaderLine(lines[i + 1])}
    IN  IF hits = {} THEN 0 - 1
        ELSE CHOOSE i \in hits : \A j \in hits : i <= j

findHeaderLine(lines, delimiter) ==
    LET limit == IF Len(lines) < HeaderWindow THEN Len(lines) ELSE HeaderWindow
        hits == {i \in 0..(limit - 1) : IsHeaderLine(lines[i + 1])}
    IN  IF hits = {} THEN 0 - 1
        ELSE CHOOSE i \in hits : \A j \in hits : i <= j

SummaryMaxColumns == 5

\* The summary test that counts the fields of the line as it stands.
IsSummaryLineUntrimmedCount(rawLine, delimiter) ==
    LET line == Trim(rawLine)
    IN  /\ StartsWith(line, "Country Of Sale") \/ StartsWith(line, "Country of Sale")
        /\ Len(Split(rawLine, delimiter)) <= SummaryMaxColumns

IsSummaryLine(rawLine, delimiter) ==
    LET line == Trim(rawLine)
    IN  /\ StartsWith(line, "Country Of Sale") \/ StartsWith(line, "Country of Sale")
        /\ Len(Split(line, delimiter)) <= SummaryMaxColumns

findSummaryLine(lines, delimiter) ==
    LET hits == {i \in 0..(Len(lines) - 1) : IsSummaryLine(lines[i + 1], delimiter)}
    IN  IF hits = {} THEN Len(lines)
        ELSE CHOOSE i \in hits : \A j \in hits : i >= j

(***************************************************************************)
(* Row decoding.  A decoded row is a function from the property names that *)
(* were assigned to their values (Partial<Transaction>).                   *)
(***************************************************************************)
\* obj[key], undefined when the property was never assigned.
Get(obj, key) == IF key \in DOMAIN obj THEN obj[key] ELSE Undefined

\* obj[key] = value
Put(obj, key, value) == (key :> value) @@ obj

EmptyObject == [k \in {} |-> Undefined]

NumericKeys == {"partnerShare", "extendedPartnerShare", "customerPrice"}

RECURSIVE DecodeFromUntrimmed(_, _, _, _)
\* The decoding loop that takes each value as it stands, untrimmed.
DecodeFromUntrimmed(row, headers, i, transaction) ==
    IF i > Len(headers) THEN transaction
    ELSE
        LET header == headers[i]
            value == IF i <= Len(row) THEN row[i] ELSE <<>>
            mapped == header \in DOMAIN COLUMN_MAP
            mappedKey == COLUMN_MAP[header]
            decoded ==
                IF mappedKey = "quantity" THEN OrZero(parseInt(value))
                ELSE IF mappedKey \in NumericKeys THEN OrZero(parseFloat(value))
                ELSE Str(value)
        IN  DecodeFromUntrimmed(row, headers, i + 1,
                                IF mapped THEN Put(transaction, mappedKey, decoded)
                                ELSE transaction)

RECURSIVE DecodeFrom(_, _, _, _)
\* The loop of parseTransaction over headers[i..].
DecodeFrom(row, headers, i, transaction) ==
    IF i > Len(headers) THEN transaction
    ELSE
        LET header == headers[i]
            value == IF i <= Len(row) THEN Trim(row[i]) ELSE <<>>
            mapped == header \in DOMAIN COLUMN_MAP
            mappedKey == COLUMN_MAP[header]
            decoded ==
                IF mappedKey = "quantity" THEN OrZero(parseInt(value))
                ELSE IF mappedKey \in NumericKeys THEN OrZero(parseFloat(value))
                ELSE Str(value)
        IN  DecodeFrom(row, headers, i + 1,
                       IF mapped THEN Put(transaction, mappedKey, decoded)
                       ELSE transaction)

Null == [t |-> "null", v |-> 0]

\* Row decoding that rejects a row only when country and currency are both
\* missing.
parseTransactionBothMissing(row, headers) ==
    LET transaction == DecodeFrom(row, headers, 1, EmptyObject)
    IN  IF /\ ~Truthy(Get(transaction, "countryOfSale"))
           /\ ~Truthy(Get(transaction, "partnerShareCurrency"))
        THEN Null
        ELSE transaction

\* parseTransaction: the decoded row, or Null when country or currency is
\* missing or empty.
parseTransaction(row, headers) ==
    LET transaction == DecodeFrom(row, headers, 1, EmptyObject)
    IN  IF \/ ~Truthy(Get(transaction, "countryOfSale"))
           \/ ~Truthy(Get(transaction, "partnerShareCurrency"))
        THEN Null
        ELSE transaction

(***************************************************************************)
(* String.prototype.localeCompare on the characters the model uses: the    *)
(* root collation puts white space before punctuation, punctuation before  *)
(* digits and digits before letters.  The result is -1, 0 or 1.            *)
(***************************************************************************)
CollationOrder ==
    <<" ", "-", ",", ".", "0", "1", "2", "3", "4", "5", "6", "7", "8", "9",
      "A", "B", "C", "D", "E", "F", "G", "H", "I", "J", "K", "L", "M", "N",
      "O", "P", "Q", "R", "S", "T", "U", "V", "W", "X", "Y", "Z">>

Rank(tok) ==
    IF \E i \in 1..Len(CollationOrder) : CollationOrder[i] = tok
    THEN CHOOSE i \in 1..Len(CollationOrder) : CollationOrder[i] = tok
    ELSE Len(CollationOrder) + 1

RECURSIVE localeCompare(_, _)
localeCompare(a, b) ==
    IF Len(a) = 0 /\ Len(b) = 0 THEN 0
    ELSE IF Len(a) = 0 THEN 0 - 1
    ELSE IF Len(b) = 0 THEN 1
    ELSE IF Rank(a[1]) < Rank(b[1]) THEN 0 - 1
    ELSE IF Rank(a[1]) > Rank(b[1]) THEN 1
    ELSE localeCompare(Tail(a), Tail(b))

RECURSIVE InsertSorted(_, _)
\* x placed behind every element of the sorted list whose sort key does not
\* compare greater than its own (Array.prototype.sort is stable).
InsertSorted(sorted, x) ==
    IF Len(sorted) = 0 THEN <<x>>
    ELSE IF localeCompare(sorted[Len(sorted)].sortKey, x.sortKey) <= 0
    THEN Append(sorted, x)
    ELSE Append(InsertSorted(SubSeq(sorted, 1, Len(sorted) - 1), x),
                sorted[Len(sorted)])

RECURSIVE SortFrom(_, _, _)
SortFrom(keyed, i, sorted) ==
    IF i > Len(keyed) THEN sorted
    ELSE SortFrom(keyed, i + 1, InsertSorted(sorted, keyed[i]))

\* A sort that leaves the list in insertion order.
SortKeepingInsertionOrder(a, keys) == a

\* Array.prototype.sort((a, b) => a.k.localeCompare(b.k)), where keys[i] is
\* the k of a[i].
Sort(a, keys) ==
    LET keyed == [i \in 1..Len(a) |-> [sortKey |-> keys[i], item |-> a[i]]]
        sorted == SortFrom(keyed, 1, <<>>)
    IN  [i \in 1..Len(a) |-> sorted[i].item]

(***************************************************************************)
(* Aggregation.  A Map is the list of its [key, value] entries in          *)
(* insertion order; Array.from(map.values()) is the list of the values.    *)
(***************************************************************************)
MapHas(map, key) == \E i \in 1..Len(map) : SameValue(map[i].key, key)

MapIndex(map, key) == CHOOSE i \in 1..Len(map) : SameValue(map[i].key, key)

MapValues(map) == [i \in 1..Len(map) |-> map[i].value]

\* `${t.countryOfSale}-${t.partnerShareCurrency}`
CountryKey(t) ==
    Str(Get(t, "countryOfSale").v \o <<HYPHEN>> \o Get(t, "partnerShareCurrency").v)

RECURSIVE CountryMapFrom(_, _, _)
\* The loop of aggregateByCountry over transactions[i..].
CountryMapFrom(transactions, i, map) ==
    IF i > Len(transactions) THEN map
    ELSE
        LET t == transactions[i]
            key == CountryKey(t)
            k == MapIndex(map, key)
            existing == map[k].value
        IN  CountryMapFrom(transactions, i + 1,
                IF MapHas(map, key)
                THEN [map EXCEPT ![k].value =
                        [existing EXCEPT
                            !.quantity = Plus(existing.quantity, Get(t, "quantity")),
                            !.proceeds = Plus(existing.proceeds,
                                              Get(t, "extendedPartnerShare"))]]
                ELSE Append(map,
                        [key |-> key,
                         value |-> [countryOfSale |-> Get(t, "countryOfSale"),
                                    currency |-> Get(t, "partnerShareCurrency"),
                                    quantity |-> Get(t, "quantity"),
                                    proceeds |-> Get(t, "extendedPartnerShare")]]))

aggregateByCountry(transactions) ==
    LET values == MapValues(CountryMapFrom(transactions, 1, <<>>))
    IN  Sort(values, [i \in 1..Len(values) |-> values[i].countryOfSale.v])

\* A Record<string, number> is the list of its [currency, amount] properties
\* in insertion order.
PropHas(obj, name) == \E i \in 1..Len(obj) : obj[i].currency = name

PropIndex(obj, name) == CHOOSE i \in 1..Len(obj) : obj[i].currency = name

PropGet(obj, name) == IF PropHas(obj, name) THEN obj[PropIndex(obj, name)].amount ELSE Undefined

PropSet(obj, name, amount) ==
    IF PropHas(obj, name)
    THEN [obj EXCEPT ![PropIndex(obj, name)].amount = amount]
    ELSE Append(obj, [currency |-> name, amount |-> amount])

\* The update of an existing product entry that also takes the row's title.
ProductUpdateRetitled(existing, t) ==
    LET currency == Get(t, "partnerShareCurrency").v
    IN  [existing EXCEPT
            !.title = Get(t, "title"),
            !.quantity = Plus(existing.quantity, Get(t, "quantity")),
            !.proceedsByCurrency =
                PropSet(existing.proceedsByCurrency, currency,
                    Plus(OrZero(PropGet(existing.proceedsByCurrency, currency)),
                         Get(t, "extendedPartnerShare")))]

\* The branch of aggregateByProduct for a SKU already in the map.
ProductUpdate(existing, t) ==
    LET currency == Get(t, "partnerShareCurrency").v
    IN  [existing EXCEPT
            !.quantity = Plus(existing.quantity, Get(t, "quantity")),
            !.proceedsByCurrency =
                PropSet(existing.proceedsByCurrency, currency,
                    Plus(OrZero(PropGet(existing.proceedsByCurrency, currency)),
                         Get(t, "extendedPartnerShare")))]

\* The branch of aggregateByProduct for a SKU seen for the first time.
ProductCreate(t) ==
    [title |-> Get(t, "title"),
     sku |-> Get(t, "sku"),
     quantity |-> Get(t, "quantity"),
     proceedsByCurrency |->
        <<[currency |-> Get(t, "partnerShareCurrency").v,
           amount |-> Get(t, "extendedPartnerShare")]>>]

RECURSIVE ProductMapFrom(_, _, _)
\* The loop of aggregateByProduct over transactions[i..].
ProductMapFrom(transactions, i, map) ==
    IF i > Len(transactions) THEN map
    ELSE
        LET t == transactions[i]
            key == Get(t, "sku")
            k == MapIndex(map, key)
        IN  ProductMapFrom(transactions, i + 1,
                IF MapHas(map, key)
                THEN [map EXCEPT ![k].value = ProductUpdate(map[k].value, t)]
                ELSE Append(map, [key |-> key, value |-> ProductCreate(t)]))

\* a.title.localeCompare(...) raises a TypeError when a.title is undefined;
\* the comparator runs as soon as there are two entries to order.
ProductSortThrows(values) ==
    Len(values) >= 2 /\ \E i \in 1..Len(values) : values[i].title.t = "undefined"

\* aggregateByProduct: threw tells whether the sort raised; value is the
\* returned list otherwise.
aggregateByProduct(transactions) ==
    LET values == MapValues(ProductMapFrom(transactions, 1, <<>>))
    IN  IF ProductSortThrows(values)
        THEN [threw |-> TRUE, value |-> <<>>]
        ELSE [threw |-> FALSE,
              value |-> Sort(values, [i \in 1..Len(values) |-> values[i].title.v])]

RECURSIVE CurrencyMapFrom(_, _, _)
\* The loop of aggregateByCurrency over transactions[i..].
CurrencyMapFrom(transactions, i, map) ==
    IF i > Len(transactions) THEN map
    ELSE
        LET t == transactions[i]
            key == Get(t, "partnerShareCurrency")
            k == MapIndex(map, key)
            existing == map[k].value
        IN  CurrencyMapFrom(transactions, i + 1,
                IF MapHas(map, key)
                THEN [map EXCEPT ![k].value =
                        [existing EXCEPT
                            !.totalQuantity =
                                Plus(existing.totalQuantity, Get(t, "quantity")),
                            !.totalProceeds =
                                Plus(existing.totalProceeds,
                                     Get(t, "extendedPartnerShare"))]]
                ELSE Append(map,
                        [key |-> key,
                         value |-> [currency |-> Get(t, "partnerShareCurrency"),
                                    totalQuantity |-> Get(t, "quantity"),
                                    totalProceeds |-> Get(t, "extendedPartnerShare")]]))

aggregateByCurrency(transactions) ==
    LET values == MapValues(CurrencyMapFrom(transactions, 1, <<>>))
    IN  Sort(values, [i \in 1..Len(values) |-> values[i].currency.v])

(***************************************************************************)
(* validateReport                                                          *)
(***************************************************************************)
MinLines == 5

ErrTooShort == <<"File appears to be empty or too short">>
ErrNoHeader ==
    <<"Could not find transaction data headers. Is this an Apple App Store financial report?">>
ErrMissingColumn(required) == <<"Missing required column: ">> \o required
WarnVendor == <<"Vendor name not found in report">>
WarnDates == <<"Reporting period dates not found">>

\* lines.length < 4
TooShortOffByOne(lines) == Len(lines) < MinLines - 1

\* lines.length < 5
TooShort(lines) == Len(lines) < MinLines

RECURSIVE MissingColumnsFromSkippingLast(_, _)
\* The loop over the required columns that leaves the last one unchecked.
MissingColumnsFromSkippingLast(headers, i) ==
    IF i >= Len(REQUIRED_COLUMNS) THEN <<>>
    ELSE (IF ArrayIncludes(headers, REQUIRED_COLUMNS[i]) THEN <<>>
          ELSE <<ErrMissingColumn(REQUIRED_COLUMNS[i])>>)
         \o MissingColumnsFromSkippingLast(headers, i + 1)

RECURSIVE MissingColumnsFrom(_, _)
\* The loop over REQUIRED_COLUMNS[i..]: one error per absent column.
MissingColumnsFrom(headers, i) ==
    IF i > Len(REQUIRED_COLUMNS) THEN <<>>
    ELSE (IF ArrayIncludes(headers, REQUIRED_COLUMNS[i]) THEN <<>>
          ELSE <<ErrMissingColumn(REQUIRED_COLUMNS[i])>>)
         \o MissingColumnsFrom(headers, i + 1)

validateReport(c, delimiter) ==
    LET lines == NonBlankLines(c)
        headerLine == findHeaderLine(lines, delimiter)
        headers == MapTrim(Split(lines[headerLine + 1], delimiter))
        errors == MissingColumnsFrom(headers, 1)
        metadata == parseMetadata(lines, delimiter)
        warnings ==
            (IF metadata.vendorName = <<>> THEN <<WarnVendor>> ELSE <<>>)
            \o (IF metadata.startDate = <<>> \/ metadata.endDate = <<>>
                THEN <<WarnDates>> ELSE <<>>)
    IN  IF TooShort(lines)
        THEN [valid |-> FALSE, errors |-> <<ErrTooShort>>, warnings |-> <<>>]
        ELSE IF headerLine = 0 - 1
        THEN [valid |-> FALSE, errors |-> <<ErrNoHeader>>, warnings |-> <<>>]
        ELSE [valid |-> Len(errors) = 0, errors |-> errors, warnings |-> warnings]

(***************************************************************************)
(* parseAppleReport                                                        *)
(***************************************************************************)
SaleCode == <<"S">>

RECURSIVE TransactionsFromKeepingReturns(_, _, _, _, _)
\* The decoding loop without the test of the sale code.
TransactionsFromKeepingReturns(lines, delimiter, headers, i, summaryLineIdx) ==
    IF i >= summaryLineIdx THEN <<>>
    ELSE
        LET row == Split(lines[i + 1], delimiter)
            transaction == parseTransaction(row, headers)
        IN  (IF transaction # Null THEN <<transaction>> ELSE <<>>)
            \o TransactionsFromKeepingReturns(lines, delimiter, headers, i + 1,
                                              summaryLineIdx)

RECURSIVE TransactionsFrom(_, _, _, _, _)
\* The decoding loop of parseAppleReport over lines i .. summaryLineIdx - 1.
TransactionsFrom(lines, delimiter, headers, i, summaryLineIdx) ==
    IF i >= summaryLineIdx THEN <<>>
    ELSE
        LET row == Split(lines[i + 1], delimiter)
            transaction == parseTransaction(row, headers)
        IN  (IF transaction # Null
                /\ SameValue(Get(transaction, "saleOrReturn"), Str(SaleCode))
             THEN <<transaction>> ELSE <<>>)
            \o TransactionsFrom(lines, delimiter, headers, i + 1, summaryLineIdx)

ErrInvalidFormat == <<"Invalid report format: could not find data headers">>
ErrTypeError == <<"TypeError">>

\* parseAppleReport: kind is "report" when a ParsedReport is returned and
\* "throw" when an exception leaves the function.
parseAppleReport(c) ==
    LET delimiter == detectDelimiter(c)
        lines == NonBlankLines(c)
        metadata == parseMetadata(lines, delimiter)
        headerLineIdx == findHeaderLine(lines, delimiter)
        summaryLineIdx == findSummaryLine(lines, delimiter)
        headers == MapTrim(Split(lines[headerLineIdx + 1], delimiter))
        transactions ==
            TransactionsFrom(lines, delimiter, headers, headerLineIdx + 1,
                             summaryLineIdx)
        byProduct == aggregateByProduct(transactions)
    IN  IF headerLineIdx = 0 - 1
        THEN [kind |-> "throw", error |-> ErrInvalidFormat]
        ELSE IF byProduct.threw
        THEN [kind |-> "throw", error |-> ErrTypeError]
        ELSE [kind |-> "report",
              metadata |-> metadata,
              transactions |-> transactions,
              summary |-> [byCountry |-> aggregateByCountry(transactions),
                           byProduct |-> byProduct.value,
                           byCurrency |-> aggregateByCurrency(transactions),
                           totalTransactions |-> Len(transactions)]]

(***************************************************************************)
(* The library keeps no state between calls.  The state is the text under  *)
(* examination and the latest call made on it with its result.             *)
(***************************************************************************)
Delimiters == {TAB, COMMA}

DetectDelimiter ==
    /\ call' = [op |-> "detectDelimiter", result |-> detectDelimiter(content)]
    /\ UNCHANGED content

ValidateReport ==
    \E delimiter \in Delimiters :
        /\ call' = [op |-> "validateReport", delimiter |-> delimiter,
                    result |-> validateReport(content, delimiter)]
        /\ UNCHANGED content

ParseAppleReport ==
    /\ call' = [op |-> "parseAppleReport", result |-> parseAppleReport(content)]
    /\ UNCHANGED content

Next == DetectDelimiter \/ ValidateReport \/ ParseAppleReport

(***************************************************************************)
(* parseAppleReport in steps.  The three aggregation passes read the same  *)
(* list of transactions and fill a Map of their own each; a host that ran  *)
(* them side by side would take their loop iterations in any order.  While *)
(* the passes run, call holds the decoded list and, for each pass, the     *)
(* number i of transactions it has consumed and its Map.  earlier is the   *)
(* result the caller got from the run before, NoRun when there was none.   *)
(***************************************************************************)
NoRun == [kind |-> "none"]

Aggregating == call.op = "aggregating"

EarlierResult == IF call.op = "parseAppleReport" THEN call.result ELSE NoRun

\* The run whose list of transactions starts from the list of the run before.
BeginWithSurvivingTransactions ==
    /\ call.op \in {"none", "parseAppleReport"}
    /\ LET delimiter == detectDelimiter(content)
           lines == NonBlankLines(content)
           headerLineIdx == findHeaderLine(lines, delimiter)
           summaryLineIdx == findSummaryLine(lines, delimiter)
           headers == MapTrim(Split(lines[headerLineIdx + 1], delimiter))
           survived == IF call.op = "parseAppleReport" /\ call.result.kind = "report"
                       THEN call.result.transactions ELSE <<>>
       IN  IF headerLineIdx = 0 - 1
           THEN call' = [op |-> "parseAppleReport",
                         result |-> [kind |-> "throw", error |-> ErrInvalidFormat],
                         earlier |-> EarlierResult]
           ELSE call' = [op |-> "aggregating",
                         metadata |-> parseMetadata(lines, delimiter),
                         transactions |->
                             survived \o
                             TransactionsFrom(lines, delimiter, headers,
                                              headerLineIdx + 1, summaryLineIdx),
                         country |-> [i |-> 0, map |-> <<>>],
                         product |-> [i |-> 0, map |-> <<>>],
                         currency |-> [i |-> 0, map |-> <<>>],
                         earlier |-> EarlierResult]
    /\ UNCHANGED content

\* parseAppleReport up to the end of the decoding loop: the list of
\* transactions is a new array and each pass starts from a new Map.
Begin ==
    /\ call.op \in {"none", "parseAppleReport"}
    /\ LET delimiter == detectDelimiter(content)
           lines == NonBlankLines(content)
           headerLineIdx == findHeaderLine(lines, delimiter)
           summaryLineIdx == findSummaryLine(lines, delimiter)
           headers == MapTrim(Split(lines[headerLineIdx + 1], delimiter))
       IN  IF headerLineIdx = 0 - 1
           THEN call' = [op |-> "parseAppleReport",
                         result |-> [kind |-> "throw", error |-> ErrInvalidFormat],
                         earlier |-> EarlierResult]
           ELSE call' = [op |-> "aggregating",
                         metadata |-> parseMetadata(lines, delimiter),
                         transactions |->
                             TransactionsFrom(lines, delimiter, headers,
                                              headerLineIdx + 1, summaryLineIdx),
                         country |-> [i |-> 0, map |-> <<>>],
                         product |-> [i |-> 0, map |-> <<>>],
                         currency |-> [i |-> 0, map |-> <<>>],
                         earlier |-> EarlierResult]
    /\ UNCHANGED content

\* One iteration of the loop of aggregateByCountry.
CountryStep ==
    /\ Aggregating
    /\ call.country.i < Len(call.transactions)
    /\ call' = [call EXCEPT
                  !.country =
                      [i |-> @.i + 1,
                       map |-> CountryMapFrom(<<call.transactions[@.i + 1]>>, 1, @.map)]]
    /\ UNCHANGED content

\* An iteration of the product loop that clears the quantity of the
\* transaction it has summed.
ProductStepClearingQuantity ==
    /\ Aggregating
    /\ call.product.i < Len(call.transactions)
    /\ call' = [call EXCEPT
                  !.product =
                      [i |-> @.i + 1,
                       map |-> ProductMapFrom(<<call.transactions[@.i + 1]>>, 1, @.map)],
                  !.transactions[call.product.i + 1] = Put(@, "quantity", Num(0))]
    /\ UNCHANGED content

\* One iteration of the loop of aggregateByProduct.
ProductStep ==
    /\ Aggregating
    /\ call.product.i < Len(call.transactions)
    /\ call' = [call EXCEPT
                  !.product =
                      [i |-> @.i + 1,
                       map |-> ProductMapFrom(<<call.transactions[@.i + 1]>>, 1, @.map)]]
    /\ UNCHANGED content

\* One iteration of the loop of aggregateByCurrency.
CurrencyStep ==
    /\ Aggregating
    /\ call.currency.i < Len(call.transactions)
    /\ call' = [call EXCEPT
                  !.currency =
                      [i |-> @.i + 1,
                       map |-> CurrencyMapFrom(<<call.transactions[@.i + 1]>>, 1, @.map)]]
    /\ UNCHANGED content

\* The three loops are over: each pass orders the values of its Map and
\* parseAppleReport returns, or raises what the product comparator raised.
Finish ==
    /\ Aggregating
    /\ call.country.i = Len(call.transactions)
    /\ call.product.i = Len(call.transactions)
    /\ call.currency.i = Len(call.transactions)
    /\ LET countries == MapValues(call.country.map)
           products == MapValues(call.product.map)
           currencies == MapValues(call.currency.map)
       IN  call' =
             [op |-> "parseAppleReport",
              earlier |-> call.earlier,
              result |->
                 IF ProductSortThrows(products)
                 THEN [kind |-> "throw", error |-> ErrTypeError]
                 ELSE [kind |-> "report",
                       metadata |-> call.metadata,
                       transactions |-> call.transactions,
                       summary |->
                         [byCountry |->
                             Sort(countries,
                                  [i \in 1..Len(countries) |-> countries[i].countryOfSale.v]),
                          byProduct |->
                             Sort(products,
                                  [i \in 1..Len(products) |-> products[i].title.v]),
                          byCurrency |->
                             Sort(currencies,
                                  [i \in 1..Len(currencies) |-> currencies[i].currency.v]),
                          totalTransactions |-> Len(call.transactions)]]]
    /\ UNCHANGED content

NextPasses == Begin \/ CountryStep \/ ProductStep \/ CurrencyStep \/ Finish

(***************************************************************************)
(* Input texts.  A file is a list of lines, a line a list of fields.       *)
(***************************************************************************)
MaxRows == 2
MaxFiller == 2
MaxDelimLines == 6

\* All sequences over S of length at most n.
SeqsUpTo(S, n) == UNION {[1..k -> S] : k \in 0..n}

MkLine(fields, delimiter) == Join(fields, delimiter)

MkContent(fieldLines, delimiter) ==
    Join([i \in 1..Len(fieldLines) |-> MkLine(fieldLines[i], delimiter)], NL)

VendorLine == << <<"Vendor Name">>, <<SP, "A", "B", SP>> >>
StartLine == << <<"Start Date">>, <<"1">> >>
EndLine == << <<"End Date">>, <<"2">> >>
BlankLine == << <<SP>> >>
FillerLine == << <<"X">> >>

Fillers(k) == [i \in 1..k |-> FillerLine]

\* The last preamble puts the header on the last line of the header window;
\* one filler line more moves it out.
Preambles ==
    { <<VendorLine, StartLine, BlankLine, EndLine>>,
      <<StartLine, EndLine>>,
      <<>>,
      <<VendorLine>> \o Fillers(HeaderWindow - 2) }

FullHeader ==
    << <<"Transaction Date">>, <<"SKU">>, <<"Title">>, <<"Country of Sale">>,
       <<"Quantity">>, <<"Extended Partner Share">>,
       <<"Partner Share Currency", CR>>, <<"Sale or Return">> >>

\* The header with column i renamed to a name the column table lacks.
Without(i) == [FullHeader EXCEPT ![i] = <<"X">>]

Headers ==
    { FullHeader,
      Without(3),                   \* no Title
      Without(5),                   \* no Quantity
      Without(6),                   \* no Extended Partner Share
      SubSeq(FullHeader, 1, 4),     \* ends after Country of Sale
      << <<"Transaction Date">>, <<"X">> >> }   \* not a header line

Row(sku, title, country, quantity, share, currency, sale) ==
    << <<"1">>, sku, title, country, quantity, share, currency, sale >>

Row1 == Row(<<"A">>, <<"T">>, <<"A">>, <<"2">>, <<"1", ".", "4", "0">>, <<"C">>, <<"S">>)
Row2 == Row(<<"A">>, <<"U">>, <<"A">>, <<"1">>, <<"0", ".", "7", "0">>, <<"C">>, <<SP, "S">>)
Row3 == Row(<<"B">>, <<"T">>, <<"A">>, <<"1">>, <<"2">>, <<"D">>, <<"S">>)
Row4 == Row(<<"B">>, <<"W">>, <<"A", "-", "B">>, <<"1">>, <<"1">>, <<"C">>, <<"S">>)
Row5 == Row(<<"A">>, <<"T">>, <<"A">>, <<"1">>, <<"1">>, <<"B", "-", "C">>, <<"S">>)
Row6 == Row(<<"A">>, <<"V">>, <<"A">>, <<"1">>, <<"-", "1", ".", "4">>, <<"C">>, <<"R">>)
Row7 == Row(<<"A">>, <<"V">>, <<SP>>, <<"1">>, <<"1">>, <<"C">>, <<"S">>)
Row8 == Row(<<"B">>, <<"U">>, <<"A">>, <<"1">>, <<"1">>, <<>>, <<"S">>)
Row9 == Row(<<"B">>, <<"U">>, <<"A">>, <<"X">>, <<"X", "1">>, <<"C">>, <<"S">>)

RowPool == {Row1, Row2, Row3, Row4, Row5, Row6, Row7, Row8, Row9}

SummaryHeader ==
    << <<SP, "Country Of Sale">>, <<"Partner Share Currency">>, <<"Quantity">>,
       <<"Extended Partner Share">> >>

Tails == { <<>>, <<SummaryHeader, Row1>> }

\* A row that ends after its quantity.
ShortRow == SubSeq(Row3, 1, 5)

ShapeRows == { <<>>, <<Row1>>, <<Row1, Row3>>, <<ShortRow, Row2>> }

\* Files of varying shape: preamble, filler lines, header, delimiter, tail.
ShapeContents ==
    { MkContent(pre \o Fillers(k) \o <<header>> \o rows \o tail, delimiter) :
        pre \in Preambles, k \in 0..MaxFiller, header \in Headers,
        rows \in ShapeRows, tail \in Tails, delimiter \in Delimiters }

\* Well-formed tab-separated files with every combination of data rows.
RowContents ==
    { MkContent(<<VendorLine, StartLine, EndLine, FullHeader>> \o rows \o tail, TAB) :
        rows \in SeqsUpTo(RowPool, MaxRows), tail \in Tails }

Init ==
    /\ content \in ShapeContents \cup RowContents
    /\ call = [op |-> "none"]

Spec == Init /\ [][Next]_vars

\* Texts made of separator characters only, for delimiter detection.
DelimLinePool == { <<"A">>, <<TAB>>, <<COMMA>> }

DelimContents ==
    { Join(lines, NL) : lines \in SeqsUpTo(DelimLinePool, MaxDelimLines) }

InitDelimiter ==
    /\ content \in DelimContents
    /\ call = [op |-> "none"]

SpecDelimiter == InitDelimiter /\ [][Next]_vars


\* Files for region location: lines in any order out of headers, rows and
\* summary lines, behind no lines or behind as many as put the first of them
\* on the last line of the header window.
MaxRegionLines == 3

TabFiller == << <<"X">>, <<"X">> >>

\* A narrow header: a header line and a summary line at once.
NarrowHeader ==
    << <<"Country of Sale">>, <<"Transaction Date">>, <<"Sale or Return">>,
       <<"Partner Share Currency">> >>

\* A header of more than five columns that starts with Country of Sale.
WideHeader == NarrowHeader \o << <<"Quantity">>, <<"Extended Partner Share">> >>

\* A sale row in the column order of the narrow and the wide header.
NarrowRow == << <<"A">>, <<"1">>, <<"S">>, <<"C">>, <<"2">>, <<"1">> >>

\* A summary line of five fields followed by a sixth, empty one.
SummaryTrailingTab == SummaryHeader \o << <<"X">>, <<>> >>

RegionLinePool ==
    {FullHeader, NarrowHeader, WideHeader, Row1, NarrowRow, SummaryHeader,
     SummaryTrailingTab}

RegionContents ==
    { MkContent([i \in 1..k |-> TabFiller] \o body, TAB) :
        k \in {0, HeaderWindow - 1},
        body \in SeqsUpTo(RegionLinePool, MaxRegionLines) }

InitRegions ==
    /\ content \in RegionContents
    /\ call = [op |-> "none"]

SpecRegions == InitRegions /\ [][Next]_vars


\* Files for the metadata: metadata lines of every kind behind no lines,
\* behind four (the first one is the last line read) or behind five (none is
\* read), and in front of a header line and a row.
MaxMetaLines == 2

VendorLineThreeFields == << <<SP, "Vendor Name">>, <<"C">>, <<"D">> >>
VendorLineLowerCase == << <<"vendor name">>, <<"E">> >>
VendorLineOneField == << <<"Vendor Name">> >>

MetaLinePool ==
    {VendorLine, VendorLineThreeFields, VendorLineLowerCase, VendorLineOneField,
     StartLine, EndLine, BlankLine}

MetaContents ==
    { MkContent([i \in 1..k |-> TabFiller] \o metas \o <<FullHeader, Row1>>, delimiter) :
        k \in {0, MetadataLines - 1, MetadataLines},
        metas \in SeqsUpTo(MetaLinePool, MaxMetaLines),
        delimiter \in Delimiters }

InitMetadata ==
    /\ content \in MetaContents
    /\ call = [op |-> "none"]

SpecMetadata == InitMetadata /\ [][Next]_vars


\* Files for the passes: rows of one product, of one country and currency, of
\* another product and currency and a return, under a header with or
\* without the Title column.
PassRowPool == {Row1, Row2, Row3, Row6}

PassContents ==
    { MkContent(<<VendorLine, header>> \o rows, TAB) :
        header \in {FullHeader, Without(3)},
        rows \in SeqsUpTo(PassRowPool, MaxRows) }

InitPasses ==
    /\ content \in PassContents
    /\ call = [op |-> "none"]

SpecPasses == InitPasses /\ [][NextPasses]_vars

(***************************************************************************)
(* Vocabulary of the properties.                                           *)
(***************************************************************************)
Parsed == call.op = "parseAppleReport"
Returned == Parsed /\ call.result.kind = "report"
Threw == Parsed /\ call.result.kind = "throw"
Validated == call.op = "validateReport"
Detected == call.op = "detectDelimiter"

\* The number of lines of the text that hold a character other than white
\* space.
NonBlankCount(c) ==
    LET physical == Split(c, NL)
    IN  Cardinality({i \in 1..Len(physical) :
                        \E j \in 1..Len(physical[i]) : physical[i][j] \notin WhiteSpace})

\* A header line stands among the first ten non-blank lines.
HeaderInWindow(c) ==
    LET lines == NonBlankLines(c)
    IN  \E i \in 1..Len(lines) : i <= HeaderWindow /\ IsHeaderLine(lines[i])

\* The trimmed column names of the header line, split on delimiter d.
HeaderFields(c, d) ==
    LET lines == NonBlankLines(c)
    IN  MapTrim(Split(lines[findHeaderLine(lines, d) + 1], d))

\* The indices (from 0) of the lines strictly between the header line and the
\* summary boundary; none when there is no header line.
DataRegion(c) ==
    LET lines == NonBlankLines(c)
        d == detectDelimiter(c)
    IN  {i \in 0..(Len(lines) - 1) :
            /\ findHeaderLine(lines, d) >= 0
            /\ findHeaderLine(lines, d) < i
            /\ i < findSummaryLine(lines, d)}

\* The trimmed field of data line i under the column called name; empty when
\* the header has no such column or the line is too short.
FieldOf(c, i, name) ==
    LET d == detectDelimiter(c)
        headers == HeaderFields(c, d)
        row == Split(NonBlankLines(c)[i + 1], d)
        cols == {k \in 1..Len(headers) : headers[k] = <<name>>}
        col == CHOOSE k \in cols : \A m \in cols : m <= k
    IN  IF cols = {} \/ col > Len(row) THEN <<>> ELSE Trim(row[col])

IsSaleRow(c, i) ==
    /\ FieldOf(c, i, "Sale or Return") = SaleCode
    /\ FieldOf(c, i, "Country of Sale") # <<>>
    /\ FieldOf(c, i, "Partner Share Currency") # <<>>

NonSaleRows(c) == {i \in DataRegion(c) : FieldOf(c, i, "Sale or Return") # SaleCode}

EmptyKeyRows(c) ==
    {i \in DataRegion(c) :
        \/ FieldOf(c, i, "Country of Sale") = <<>>
        \/ FieldOf(c, i, "Partner Share Currency") = <<>>}

RECURSIVE KeepFrom(_, _, _)
KeepFrom(lines, drop, i) ==
    IF i >= Len(lines) THEN <<>>
    ELSE (IF i \in drop THEN <<>> ELSE <<lines[i + 1]>>) \o KeepFrom(lines, drop, i + 1)

\* The text without the non-blank lines whose indices are in drop.
WithoutRows(c, drop) == Join(KeepFrom(NonBlankLines(c), drop, 0), NL)

RECURSIVE SumOf(_, _)
\* The sum of the numeric property key over a list of objects.
SumOf(objs, key) ==
    IF Len(objs) = 0 THEN 0 ELSE objs[1][key].v + SumOf(Tail(objs), key)

\* Every retained transaction carries a number in both summed fields.
AllNumeric(txs) ==
    \A i \in 1..Len(txs) :
        /\ Get(txs[i], "quantity").t = "number"
        /\ Get(txs[i], "extendedPartnerShare").t = "number"

WithPair(txs, country, currency) ==
    SelectSeq(txs, LAMBDA t : t.countryOfSale = country /\ t.partnerShareCurrency = currency)

WithCurrency(txs, currency) ==
    SelectSeq(txs, LAMBDA t : t.partnerShareCurrency = currency)

WithSku(txs, sku) == SelectSeq(txs, LAMBDA t : SameValue(Get(t, "sku"), sku))

Range(f) == {f[i] : i \in DOMAIN f}

(***************************************************************************)
(* Properties.                                                             *)
(***************************************************************************)
Txs == call.result.transactions
ByCountry == call.result.summary.byCountry
ByProduct == call.result.summary.byProduct
ByCurrency == call.result.summary.byCurrency

\* C1: in every returned report whose amounts are numbers, the currencies of
\* byCountry are the currencies of byCurrency, and for each currency the
\* totalProceeds of its byCurrency entry is the sum of the proceeds of the
\* byCountry entries with that currency.
C1_CountryCurrencyReconcile ==
    (Returned /\ AllNumeric(Txs)) =>
        /\ {e.currency : e \in Range(ByCountry)} = {e.currency : e \in Range(ByCurrency)}
        /\ \A e \in Range(ByCurrency) :
              e.totalProceeds.v =
                  SumOf(SelectSeq(ByCountry, LAMBDA x : x.currency = e.currency),
                        "proceeds")

\* C2: in every returned report totalTransactions is the length of
\* transactions, and both are the number of data-region lines whose Sale or
\* Return field is 'S' and whose Country of Sale and Partner Share Currency
\* fields are not empty after trimming.
C2_TransactionCount ==
    Returned =>
        /\ call.result.summary.totalTransactions = Len(Txs)
        /\ Len(Txs) = Cardinality({i \in DataRegion(content) : IsSaleRow(content, i)})

\* A report with retained rows, a data row that is not retained, and lines
\* behind the summary boundary.
C2_Witness ==
    /\ Returned
    /\ Len(Txs) >= 1
    /\ \E i \in DataRegion(content) : ~IsSaleRow(content, i)
    /\ \E i \in DataRegion(content) :
          i + 2 < Len(NonBlankLines(content)) /\ i + 1 \notin DataRegion(content)

Pairs(objs, a, b) == {<<objs[i][a], objs[i][b]>> : i \in 1..Len(objs)}

\* C8: in every returned report whose amounts are numbers, byCountry has
\* exactly one entry for each distinct (countryOfSale, partnerShareCurrency)
\* pair of the retained transactions, and the entry's quantity and proceeds
\* are the sums over the transactions with exactly that pair.
C8_OneEntryPerPair ==
    (Returned /\ AllNumeric(Txs)) =>
        /\ Pairs(ByCountry, "countryOfSale", "currency")
              = Pairs(Txs, "countryOfSale", "partnerShareCurrency")
        /\ Len(ByCountry)
              = Cardinality(Pairs(Txs, "countryOfSale", "partnerShareCurrency"))
        /\ \A e \in Range(ByCountry) :
              /\ e.quantity.v
                    = SumOf(WithPair(Txs, e.countryOfSale, e.currency), "quantity")
              /\ e.proceeds.v
                    = SumOf(WithPair(Txs, e.countryOfSale, e.currency),
                            "extendedPartnerShare")

\* C3: every transaction of a returned report has saleOrReturn 'S', and the
\* transactions and the three aggregates are those of the same text with
\* its non-'S' data rows taken out: such rows add nothing anywhere.
C3_ReturnsContributeNothing ==
    Returned =>
        /\ \A i \in 1..Len(Txs) : Get(Txs[i], "saleOrReturn") = Str(SaleCode)
        /\ LET sales == parseAppleReport(WithoutRows(content, NonSaleRows(content)))
           IN  /\ sales.kind = "report"
               /\ sales.transactions = Txs
               /\ sales.summary = call.result.summary

\* A report with retained sales beside a return row that has country and
\* currency.
C3_Witness ==
    /\ Returned
    /\ Len(Txs) >= 1
    /\ \E i \in NonSaleRows(content) :
          /\ FieldOf(content, i, "Sale or Return") = <<"R">>
          /\ i \notin EmptyKeyRows(content)

\* C4 as stated: parseAppleReport raises on every input with fewer than 5
\* non-blank lines.
C4_ShortInputAbortsParsing ==
    (Parsed /\ NonBlankCount(content) < MinLines) => Threw

\* C4 as amended: on every input with fewer than 5 non-blank lines
\* validateReport, with either delimiter, returns valid = false with the
\* too-short error alone and no warning.
C4_ShortInputFailsValidation ==
    (Validated /\ NonBlankCount(content) < MinLines) =>
        call.result = [valid |-> FALSE, errors |-> <<ErrTooShort>>, warnings |-> <<>>]

\* A validated text of four non-blank lines that holds a complete header.
C4_Witness ==
    /\ Validated
    /\ NonBlankCount(content) = MinLines - 1
    /\ HeaderInWindow(content)
    /\ ~call.result.valid

\* C5: whenever a header line stands in the first 10 non-blank lines,
\* parseAppleReport returns a report.
C5_ReportWheneverHeaderFound ==
    (Parsed /\ HeaderInWindow(content)) => Returned

\* C6: validateReport returns valid = true exactly when the text has at least
\* 5 non-blank lines, a header line stands in the first 10 of them and the
\* header's trimmed fields include the four required columns; valid equals
\* (errors is empty); a too-short text gets the too-short error alone and no
\* warning; every warning is one of the two metadata warnings.
C6_ValidationVerdict ==
    Validated =>
        LET r == call.result
            d == call.delimiter
            enough == NonBlankCount(content) >= MinLines
            found == HeaderInWindow(content)
            complete ==
                \A n \in 1..Len(REQUIRED_COLUMNS) :
                    REQUIRED_COLUMNS[n] \in Range(HeaderFields(content, d))
        IN  /\ r.valid <=> (enough /\ found /\ complete)
            /\ r.valid <=> (r.errors = <<>>)
            /\ ~enough => (r.errors = <<ErrTooShort>> /\ r.warnings = <<>>)
            /\ Range(r.warnings) \subseteq {WarnVendor, WarnDates}

\* A text found valid although vendor name and period dates are missing.
C6_Witness ==
    /\ Validated
    /\ call.result.valid
    /\ call.result.warnings = <<WarnVendor, WarnDates>>

\* The characters of the text that lie in its first five physical lines.
InFirstLines(c, ch) ==
    {p \in 1..Len(c) :
        /\ c[p] = ch
        /\ Cardinality({q \in 1..(p - 1) : c[q] = NL}) < DetectLines}

\* C7: detectDelimiter returns tab or comma, and tab exactly when the first 5
\* physical lines hold strictly more tabs than commas.
C7_DelimiterByMajority ==
    Detected =>
        /\ call.result \in {TAB, COMMA}
        /\ call.result = TAB
              <=> Cardinality(InFirstLines(content, TAB))
                    > Cardinality(InFirstLines(content, COMMA))

\* Tab is returned for a text whose commas outnumber its tabs, the surplus
\* lying behind the fifth line.
C7_Witness ==
    /\ Detected
    /\ call.result = TAB
    /\ CountChar(content, COMMA) >= CountChar(content, TAB)

\* Comma is returned for the empty text.
C7_WitnessEmpty == Detected /\ content = <<>> /\ call.result = COMMA

RECURSIVE ProductProceeds(_, _)
\* The proceeds in one currency summed over a list of product entries.
ProductProceeds(products, currency) ==
    IF Len(products) = 0 THEN 0
    ELSE (IF PropHas(products[1].proceedsByCurrency, currency)
          THEN PropGet(products[1].proceedsByCurrency, currency).v ELSE 0)
         + ProductProceeds(Tail(products), currency)

\* C9: in every returned report whose amounts are numbers, byProduct has
\* exactly one entry per distinct SKU of the retained transactions; its title
\* is that of the first retained row with the SKU, its quantity the sum over
\* the rows with the SKU, its proceedsByCurrency has one amount per currency
\* of those rows, the sum of their extendedPartnerShare; and per currency the
\* product proceeds add up to the byCurrency totalProceeds.
C9_OneEntryPerSku ==
    (Returned /\ AllNumeric(Txs)) =>
        /\ {e.sku : e \in Range(ByProduct)} = {Get(t, "sku") : t \in Range(Txs)}
        /\ Len(ByProduct) = Cardinality({Get(t, "sku") : t \in Range(Txs)})
        /\ \A e \in Range(ByProduct) :
              LET rows == WithSku(Txs, e.sku)
                  currencies == {t.partnerShareCurrency.v : t \in Range(rows)}
              IN  /\ e.title = Get(rows[1], "title")
                  /\ e.quantity.v = SumOf(rows, "quantity")
                  /\ {p.currency : p \in Range(e.proceedsByCurrency)} = currencies
                  /\ Len(e.proceedsByCurrency) = Cardinality(currencies)
                  /\ \A p \in Range(e.proceedsByCurrency) :
                        p.amount.v =
                            SumOf(WithCurrency(rows, Str(p.currency)),
                                  "extendedPartnerShare")
        /\ \A c \in Range(ByCurrency) :
              c.totalProceeds.v = ProductProceeds(ByProduct, c.currency.v)

\* One product entry built from two retained rows that share the SKU and
\* differ in title and in currency.
C9_Witness ==
    /\ Returned
    /\ AllNumeric(Txs)
    /\ \E e \in Range(ByProduct) :
          LET rows == WithSku(Txs, e.sku)
          IN  /\ Len(rows) >= 2
              /\ Get(rows[1], "title") # Get(rows[2], "title")
              /\ Len(e.proceedsByCurrency) >= 2

\* C10: the outcome of parseAppleReport (report or exception, and every part
\* of the report) is that of the same text without the data rows whose
\* Country of Sale or Partner Share Currency is empty after trimming, and
\* every retained transaction has a non-empty countryOfSale and
\* partnerShareCurrency.
C10_EmptyKeyRowsDropped ==
    Parsed =>
        /\ call.result = parseAppleReport(WithoutRows(content, EmptyKeyRows(content)))
        /\ Returned =>
              \A i \in 1..Len(Txs) :
                  /\ Truthy(Get(Txs[i], "countryOfSale"))
                  /\ Truthy(Get(Txs[i], "partnerShareCurrency"))

\* A report with a retained row beside a sale row whose country is blank.
C10_Witness ==
    /\ Returned
    /\ Len(Txs) >= 1
    /\ \E i \in EmptyKeyRows(content) :
          /\ FieldOf(content, i, "Sale or Return") = SaleCode
          /\ FieldOf(content, i, "Country of Sale") = <<>>
          /\ FieldOf(content, i, "Partner Share Currency") # <<>>

\* The indices (from 0) of the header lines among the first ten non-blank
\* lines.
WindowHeaders(c) ==
    LET lines == NonBlankLines(c)
    IN  {i \in 0..(Len(lines) - 1) : i < HeaderWindow /\ IsHeaderLine(lines[i + 1])}

FirstHeader(c) == CHOOSE i \in WindowHeaders(c) : \A j \in WindowHeaders(c) : i <= j

\* The lines that count as summary lines when the fields are counted on the
\* trimmed text (trimmed = TRUE) or on the line as it stands.
SummaryMatches(c, trimmed) ==
    LET lines == NonBlankLines(c)
        d == detectDelimiter(c)
    IN  {i \in 0..(Len(lines) - 1) :
            /\ \/ StartsWith(Trim(lines[i + 1]), "Country Of Sale")
               \/ StartsWith(Trim(lines[i + 1]), "Country of Sale")
            /\ Len(Split(IF trimmed THEN Trim(lines[i + 1]) ELSE lines[i + 1], d))
                  <= SummaryMaxColumns}

\* The matching line closest to the end, or the number of lines.
Boundary(c, trimmed) ==
    IF SummaryMatches(c, trimmed) = {} THEN Len(NonBlankLines(c))
    ELSE CHOOSE i \in SummaryMatches(c, trimmed) :
            \A j \in SummaryMatches(c, trimmed) : j <= i

\* The rows decoded under the header at index h, up to the boundary b.
DecodedBetween(c, h, b) ==
    LET lines == NonBlankLines(c)
        d == detectDelimiter(c)
    IN  TransactionsFrom(lines, d, MapTrim(Split(lines[h + 1], d)), h + 1, b)

\* C12 as stated: when no header line stands in the first 10 non-blank lines
\* parseAppleReport raises and validateReport returns valid = false with the
\* header-not-found error; otherwise the rows are decoded under the first
\* header line of the window.
C12_NoHeaderInWindow ==
    /\ (Parsed /\ WindowHeaders(content) = {}) =>
          call.result = [kind |-> "throw", error |-> ErrInvalidFormat]
    /\ (Validated /\ WindowHeaders(content) = {}) =>
          call.result = [valid |-> FALSE, errors |-> <<ErrNoHeader>>, warnings |-> <<>>]
    /\ (Returned /\ WindowHeaders(content) # {}) =>
          Txs = DecodedBetween(content, FirstHeader(content),
                               Boundary(content, TRUE))

\* C12 as amended: as stated, except that validateReport answers a text of
\* fewer than 5 non-blank lines with the too-short error instead of the
\* header-not-found error.
C12_NoHeaderInWindowUnlessShort ==
    /\ (Parsed /\ WindowHeaders(content) = {}) =>
          call.result = [kind |-> "throw", error |-> ErrInvalidFormat]
    /\ (Validated /\ WindowHeaders(content) = {}) =>
          call.result =
              [valid |-> FALSE,
               errors |-> IF NonBlankCount(content) < MinLines
                          THEN <<ErrTooShort>> ELSE <<ErrNoHeader>>,
               warnings |-> <<>>]
    /\ (Returned /\ WindowHeaders(content) # {}) =>
          Txs = DecodedBetween(content, FirstHeader(content),
                               Boundary(content, TRUE))

\* parseAppleReport raised on a text whose only header line has index 10.
C12_Witness ==
    /\ Threw
    /\ Len(NonBlankLines(content)) > HeaderWindow
    /\ IsHeaderLine(NonBlankLines(content)[HeaderWindow + 1])

\* C13 as stated: the retained transactions are the sale rows among the lines
\* strictly between the header line and the boundary, the boundary being
\* the last line whose trimmed text starts with 'Country Of Sale' or 'Country
\* of Sale' and that splits into at most 5 fields, or the number of lines.
C13_BoundaryByLineFields ==
    Returned =>
        Txs = DecodedBetween(content, FirstHeader(content), Boundary(content, FALSE))

\* C13 as amended: the same with the fields counted on the trimmed text, so
\* that the tabs at the end of a line add no field.
C13_BoundaryByTrimmedFields ==
    Returned =>
        /\ Txs = DecodedBetween(content, FirstHeader(content), Boundary(content, TRUE))
        /\ Len(Txs) =
              Cardinality({i \in 0..(Len(NonBlankLines(content)) - 1) :
                              /\ FirstHeader(content) < i
                              /\ i < Boundary(content, TRUE)
                              /\ IsSaleRow(content, i)})

\* A report with a retained row between two summary lines, the second of
\* which is the boundary.
C13_Witness ==
    /\ Returned
    /\ Len(Txs) >= 1
    /\ Cardinality(SummaryMatches(content, TRUE)) >= 2
    /\ Boundary(content, TRUE) < Len(NonBlankLines(content))

\* The indices of the retained rows, and the same in increasing order.
SaleRowIndices(c) == {i \in DataRegion(c) : IsSaleRow(c, i)}

Ascending(S) ==
    CHOOSE f \in [1..Cardinality(S) -> S] :
        \A a, b \in 1..Cardinality(S) : a < b => f[a] < f[b]

\* No entry of the list compares greater than the entry behind it, under the
\* string field called key.
NonDecreasing(list, key) ==
    \A k \in 1..(Len(list) - 1) :
        localeCompare(list[k][key].v, list[k + 1][key].v) <= 0

\* C14: the transactions of a report stand in file order, and byCountry,
\* byProduct and byCurrency are in ascending order of countryOfSale, title and
\* currency: no entry compares greater than the next.
C14_Ordered ==
    Returned =>
        LET rows == Ascending(SaleRowIndices(content))
            d == detectDelimiter(content)
        IN  /\ Len(Txs) = Len(rows)
            /\ \A k \in 1..Len(rows) :
                  Txs[k] = parseTransaction(
                               Split(NonBlankLines(content)[rows[k] + 1], d),
                               HeaderFields(content, d))
            /\ NonDecreasing(ByCountry, "countryOfSale")
            /\ NonDecreasing(ByProduct, "title")
            /\ NonDecreasing(ByCurrency, "currency")

\* A report whose countries, titles and currencies were first met in
\* descending order.
C14_Witness ==
    /\ Returned
    /\ Len(Txs) = 2
    /\ localeCompare(Get(Txs[1], "countryOfSale").v, Get(Txs[2], "countryOfSale").v) > 0
    /\ localeCompare(Get(Txs[1], "title").v, Get(Txs[2], "title").v) > 0
    /\ localeCompare(Get(Txs[1], "partnerShareCurrency").v,
                     Get(Txs[2], "partnerShareCurrency").v) > 0
    /\ Get(Txs[1], "sku") # Get(Txs[2], "sku")

IsNumber(x) == x.t = "number"

\* C16: every retained transaction carries numbers in quantity, partnerShare,
\* extendedPartnerShare and customerPrice, and every quantity and proceeds
\* total of the three aggregates is a number.
C16_NumbersEverywhere ==
    Returned =>
        /\ \A i \in 1..Len(Txs), key \in {"quantity"} \cup NumericKeys :
              IsNumber(Get(Txs[i], key))
        /\ \A i \in 1..Len(ByCountry) :
              IsNumber(ByCountry[i].quantity) /\ IsNumber(ByCountry[i].proceeds)
        /\ \A i \in 1..Len(ByProduct) :
              /\ IsNumber(ByProduct[i].quantity)
              /\ \A k \in 1..Len(ByProduct[i].proceedsByCurrency) :
                    IsNumber(ByProduct[i].proceedsByCurrency[k].amount)
        /\ \A i \in 1..Len(ByCurrency) :
              IsNumber(ByCurrency[i].totalQuantity) /\ IsNumber(ByCurrency[i].totalProceeds)

\* C18: when validateReport accepts a text under its detected delimiter,
\* parseAppleReport returns a report for that text and does not raise.
C18_ValidThenParses ==
    (Parsed /\ validateReport(content, detectDelimiter(content)).valid) => Returned

\* The lines (from 1) among the first five non-blank ones that split into two
\* fields or more and whose trimmed first field is name.
MetaLines(c, name) ==
    LET lines == NonBlankLines(c)
        d == detectDelimiter(c)
    IN  {i \in 1..Len(lines) :
            /\ i <= MetadataLines
            /\ Len(Split(lines[i], d)) >= 2
            /\ Trim(Split(lines[i], d)[1]) = <<name>>}

\* The trimmed second field of the last such line; empty when there is none.
MetaValue(c, name) ==
    IF MetaLines(c, name) = {} THEN <<>>
    ELSE LET i == CHOOSE k \in MetaLines(c, name) : \A m \in MetaLines(c, name) : m <= k
         IN  Trim(Split(NonBlankLines(c)[i], detectDelimiter(c))[2])

\* C17: the metadata of a report come from the first 5 non-blank lines alone:
\* a line of two fields or more whose trimmed first field is exactly
\* 'Vendor Name', 'Start Date' or 'End Date' gives its trimmed second field,
\* a key that is absent leaves the empty string, and parseAppleReport returns a
\* report whatever keys are missing.
C17_MetadataFromFirstLines ==
    /\ Returned =>
          call.result.metadata =
              [vendorName |-> MetaValue(content, "Vendor Name"),
               startDate |-> MetaValue(content, "Start Date"),
               endDate |-> MetaValue(content, "End Date")]
    /\ (Parsed /\ HeaderInWindow(content)) => Returned

\* A report without vendor name for a text whose sixth non-blank line is a
\* 'Vendor Name' line, the start date being read from the fifth.
C17_Witness ==
    /\ Returned
    /\ call.result.metadata.vendorName = <<>>
    /\ call.result.metadata.startDate # <<>>
    /\ Len(NonBlankLines(content)) > MetadataLines
    /\ LET fields == Split(NonBlankLines(content)[MetadataLines + 1],
                           detectDelimiter(content))
       IN  Len(fields) >= 2 /\ Trim(fields[1]) = <<"Vendor Name">>

C15_PassesIndependent ==
    /\ Aggregating =>
          /\ call.transactions =
                DecodedBetween(content, FirstHeader(content), Boundary(content, TRUE))
          /\ call.country.map =
                CountryMapFrom(SubSeq(call.transactions, 1, call.country.i), 1, <<>>)
          /\ call.product.map =
                ProductMapFrom(SubSeq(call.transactions, 1, call.product.i), 1, <<>>)
          /\ call.currency.map =
                CurrencyMapFrom(SubSeq(call.transactions, 1, call.currency.i), 1, <<>>)
    /\ Parsed => call.result = parseAppleReport(content)

\* The passes stand at three different places of a list of two transactions.
C15_Witness ==
    /\ Aggregating
    /\ Len(call.transactions) = 2
    /\ call.currency.i = 2
    /\ call.country.i = 1
    /\ call.product.i = 0

====
